---- MODULE Spec2Model ----
(***************************************************************************)
(* Model of lms-zabbix-sync: the DeviceBuffer (src/src/buffer.py), the     *)
(* LMSMessageProcessor (src/src/message_processor.py), the ZabbixAPIClient *)
(* (src/src/zabbix_client.py) and the consumer callback (src/src/sync.py). *)
(*                                                                         *)
(* Python values are represented as follows.                               *)
(*   dict            a function whose DOMAIN is the set of keys present    *)
(*   dict key        [t |-> "int"|"str"|"none", v |-> n]: the int n, the    *)
(*                   text str(n), or None; 1 and "1" are different keys    *)
(*   name            a tuple of one-character strings                      *)
(*   IP text         a string; "" is the empty IP                          *)
(*   Optional[X]     <<>> for None, <<x>> for a value                      *)
(*   a missing key   Absent (what dict.get returns as None)                *)
(*   an address      [hi |-> h, lo |-> l] for the integer h * 2^16 + l      *)
(***************************************************************************)
EXTENDS Integers, Sequences, FiniteSets, TLC

VARIABLES
    pending_devices,    \* DeviceBuffer.pending_devices
    device_ips,         \* DeviceBuffer.device_ips
    device_info_cache,  \* DeviceBuffer.device_info_cache
    hosts,              \* the hosts of the Zabbix inventory
    requeued,           \* the delivery the broker holds for redelivery
    delivered,          \* number of deliveries processed so far
    last,               \* what the last processed delivery did
    snapshot,           \* the contents of buffer_state.json (None: no file)
    nameGiven,          \* <<key, device_data>>: non-empty names supplied
    ipGiven,            \* <<device number, ip>>: non-empty IPs supplied
    call                \* the last direct call on the buffer and its result

vars == <<pending_devices, device_ips, device_info_cache, hosts, requeued,
          delivered, last, snapshot, nameGiven, ipGiven, call>>

bufferVars == <<pending_devices, device_ips, device_info_cache>>

systemVars == <<hosts, requeued, delivered, last>>

historyVars == <<nameGiven, ipGiven>>

-----------------------------------------------------------------------------
(* Bounds of the model *)

MaxDevices == 1

MaxDeliveries == 3

-----------------------------------------------------------------------------
(* Python values *)

Absent == "<absent>"

None == <<>>

Some(x) == <<x>>

EmptyDict == <<>>

\* the value of a local variable: v is computed once and the rest of
\* the function, F, reads it
Bind(v, F(_)) == CHOOSE y \in {F(x) : x \in {v}} : TRUE

Put(d, k, v) == [x \in (DOMAIN d) \cup {k} |-> IF x = k THEN v ELSE d[x]]

Del(d, k) == [x \in (DOMAIN d) \ {k} |-> d[x]]

IntKey(n) == [t |-> "int", v |-> n]

StrKey(n) == [t |-> "str", v |-> n]

NoneKey == [t |-> "none", v |-> 0]

\* str(device_id): the text of a number; text stays as it is
str(k) == IF k.t = "none" THEN NoneKey ELSE StrKey(k.v)

\* bool(x) of a text or of a missing value
Truthy(x) == x # Absent /\ x # ""

\* bool(x) of a name (a missing name is the empty tuple)
TruthyName(x) == x # <<>>

DeviceNums == 1 .. MaxDevices

-----------------------------------------------------------------------------
(* src/src/buffer.py *)

Buffer(pd, ips, cache) ==
    [pending_devices |-> pd, device_ips |-> ips, device_info_cache |-> cache]

\* device.get("name") and device.get("ip")
IsComplete(device) == TruthyName(device.name) /\ Truthy(device.ip)

add_device(b, device_id, device_data) ==
    LET merged == IF device_id \in DOMAIN b.device_ips
                  THEN [device_data EXCEPT !.ip = b.device_ips[device_id]]
                  ELSE device_data
    IN  [buf |-> [b EXCEPT !.pending_devices = Put(@, device_id, merged)],
         ret |-> IsComplete(merged)]

add_ip_for_device(b, device_id, ip) ==
    LET key == str(device_id)
        ips == Put(b.device_ips, key, ip)
    IN  IF key \in DOMAIN b.pending_devices
        THEN LET device == [b.pending_devices[key] EXCEPT !.ip = ip]
             IN  [buf |-> [b EXCEPT !.device_ips = ips,
                                    !.pending_devices = Put(@, key, device)],
                  ret |-> IsComplete(device)]
        ELSE [buf |-> [b EXCEPT !.device_ips = ips], ret |-> FALSE]

\* the record is returned and both entries stay
get_complete_device_keep_entry(b, device_id) ==
    LET key == str(device_id)
    IN  IF key \in DOMAIN b.pending_devices
           /\ IsComplete(b.pending_devices[key])
        THEN [buf |-> b, ret |-> Some(b.pending_devices[key])]
        ELSE [buf |-> b, ret |-> None]

get_complete_device_keep_ip(b, device_id) ==
    LET key == str(device_id)
    IN  IF key \in DOMAIN b.pending_devices
           /\ IsComplete(b.pending_devices[key])
        THEN [buf |-> [b EXCEPT !.pending_devices = Del(@, key)],
              ret |-> Some(b.pending_devices[key])]
        ELSE [buf |-> b, ret |-> None]

get_complete_device(b, device_id) ==
    LET key == str(device_id)
    IN  IF key \in DOMAIN b.pending_devices
           /\ IsComplete(b.pending_devices[key])
        THEN [buf |-> [b EXCEPT !.pending_devices = Del(@, key),
                                !.device_ips = Del(@, key)],
              ret |-> Some(b.pending_devices[key])]
        ELSE [buf |-> b, ret |-> None]

remove_device(b, device_id) ==
    LET key == str(device_id)
    IN  [b EXCEPT !.pending_devices = Del(@, key), !.device_ips = Del(@, key)]

\* The argument is used as a host dict: host.get("host").  A number or a
\* text has no attribute get, so the call raises AttributeError before it
\* touches the buffer.  Every caller passes the netdev of a node payload.
restore_device_to_pending(b, host) ==
    [buf |-> b, raised |-> host.t \in {"int", "str", "none"}]

\* The methods the class DeviceBuffer defines; a call of any other name on
\* a DeviceBuffer raises AttributeError.
DeviceBufferMethods ==
    {"add_device", "add_ip_for_device", "get_complete_device", "remove_device",
     "get_buffer_status", "restore_device_to_pending", "save_state",
     "load_state"}

\* the DeviceBuffer of the process
Buf == Buffer(pending_devices, device_ips, device_info_cache)

SetBufInit(b) ==
    /\ pending_devices = b.pending_devices
    /\ device_ips = b.device_ips
    /\ device_info_cache = b.device_info_cache

SetBuf(b) ==
    /\ pending_devices' = b.pending_devices
    /\ device_ips' = b.device_ips
    /\ device_info_cache' = b.device_info_cache

\* json.dump writes every key of an object as text: the number 1 becomes
\* "1".  (None would become "null"; no call of the model stores under None.)
JsonKey(k) == IF k.t = "int" THEN StrKey(k.v) ELSE k

\* The objects json.load can give back for a dict written by json.dump.
\* Two keys with the same text, 1 and "1", are written as two members of
\* the same name and json.load keeps the one written last, which is the
\* one inserted last; insertion order is not part of the model, so either
\* may be the one kept.
JsonObjects(d) ==
    LET keys == {JsonKey(k) : k \in DOMAIN d}
    IN  {g \in [keys -> {d[k] : k \in DOMAIN d}] :
            \A s \in keys : \E k \in DOMAIN d : JsonKey(k) = s /\ g[s] = d[k]}

\* state = {"pending_devices": self.pending_devices}; json.dump(state, f):
\* the files a completed save_state can leave
save_state(b) ==
    {Some([pending_devices |-> g]) : g \in JsonObjects(b.pending_devices)}

\* open(BUFFER_STATE_FILE, "w") empties the file and json.dump then writes
\* it piece by piece: a file that holds only the beginning of the text
TornFile == Some([torn |-> TRUE])

\* The files a save_state of buffer b can leave when the process may die
\* inside it: the old file (before open), a torn one, or a complete one.
save_state_interrupted(b, file) == {file, TornFile} \cup save_state(b)

\* state.get(section, {})
Section(state, section) ==
    IF section \in DOMAIN state THEN state[section] ELSE EmptyDict

\* Without a file the three maps stay as __init__ made them; so they do
\* when json.load raises on a torn file, which the except branch logs.
load_state(file) ==
    IF file = None \/ file = TornFile
    THEN Buffer(EmptyDict, EmptyDict, EmptyDict)
    ELSE Buffer(Section(file[1], "pending_devices"),
                Section(file[1], "device_ips"),
                Section(file[1], "device_info_cache"))

-----------------------------------------------------------------------------
(* Inputs *)

\* name.lstrip("#"): every leading '#' is removed
RECURSIVE lstrip(_)
lstrip(name) ==
    IF name # <<>> /\ Head(name) = "#" THEN lstrip(Tail(name)) ELSE name

\* 0 if payload.get("status", 0) == 0 else 1
NormStatus(status) == IF status = 0 THEN 0 ELSE 1

\* the attribute half of a netdevices payload
AttrVariants ==
    {[name |-> <<"#", "a">>, description |-> "d1", status |-> 2],
     [name |-> <<"b">>, description |-> "d2", status |-> 0],
     [name |-> <<>>, description |-> "", status |-> 0]}

\* the device_data dict the netdevice INSERT handler builds
DeviceData(attrs) ==
    [name |-> lstrip(attrs.name), description |-> attrs.description,
     status |-> NormStatus(attrs.status), action |-> "create", ip |-> Absent]

Addr(hi, lo) == [hi |-> hi, lo |-> lo]

Addr0 == Addr(0, 0)

\* 3232235521
AddrA == Addr(49320, 1)

\* 3232235777
AddrB == Addr(49320, 257)

\* 4294967296, which does not fit four bytes
AddrTooBig == Addr(65536, 0)

\* ip_int.to_bytes(4, byteorder='big') raises OverflowError outside
\* 0 .. 2^32 - 1
FitsFourBytes(a) == a.hi >= 0 /\ a.hi < 65536 /\ a.lo >= 0 /\ a.lo < 65536

\* the bytes in little-endian order
ip_to_string_little_endian(a) ==
    IF a = Addr0 THEN ""
    ELSE ToString(a.lo % 256) \o "." \o ToString(a.lo \div 256) \o "."
         \o ToString(a.hi % 256) \o "." \o ToString(a.hi \div 256)

\* the two 16-bit halves exchanged
ip_to_string_halves_exchanged(a) ==
    IF a = Addr0 THEN ""
    ELSE ToString(a.lo \div 256) \o "." \o ToString(a.lo % 256) \o "."
         \o ToString(a.hi \div 256) \o "." \o ToString(a.hi % 256)

\* the four big-endian bytes, joined by "."
ip_to_string(a) ==
    IF a = Addr0 THEN ""
    ELSE ToString(a.hi \div 256) \o "." \o ToString(a.hi % 256) \o "."
         \o ToString(a.lo \div 256) \o "." \o ToString(a.lo % 256)

IpTexts == {"", ip_to_string(AddrA), ip_to_string(AddrB)}

\* the arguments of the direct calls on the buffer
CallAttrs == {a \in AttrVariants : a.name \in {<<"#", "a">>, <<>>}}

CallIps == {"", ip_to_string(AddrB)}

\* a device id as a JSON number or as JSON text
PayloadIds == {IntKey(n) : n \in DeviceNums} \cup {StrKey(n) : n \in DeviceNums}

\* buffer_state.json: no file, a file holding a pending device (JSON object
\* keys are text), or a file holding an info-cache snapshot
SnapshotFiles ==
    {None,
     Some([pending_devices |-> Put(EmptyDict, StrKey(1),
                                   [DeviceData([name |-> <<"a">>,
                                                description |-> "d1",
                                                status |-> 1])
                                    EXCEPT !.ip = Absent]),
           device_ips |-> EmptyDict,
           device_info_cache |-> EmptyDict]),
     Some([pending_devices |-> EmptyDict,
           device_ips |-> EmptyDict,
           device_info_cache |->
               Put(Put(EmptyDict, StrKey(1),
                       [name |-> <<"a">>, description |-> "d1", status |-> 1,
                        ip |-> ip_to_string(AddrA)]),
                   StrKey(2),
                   [name |-> <<>>, description |-> "", status |-> 0,
                    ip |-> ip_to_string(AddrB)])])}

-----------------------------------------------------------------------------
(* src/src/zabbix_client.py, with the Zabbix inventory behind it.  hosts   *)
(* maps the technical name of a host to its id, visible name, description, *)
(* status and the IP of its interface.  fail names the API request of the  *)
(* current delivery that raises (a network or API error), if any.  Every  *)
(* method catches Exception and returns None or False: raised is FALSE.    *)

FailPoints == {"none", "lookup", "find", "ifget", "ifupdate", "mutate"}

NoName == <<"<absent>">>

NoStatus == -1

Sink(hs, calls) == [hosts |-> hs, calls |-> calls]

Logged(z, op, ok) == Append(z.calls, [op |-> op, ok |-> ok])

HostDict(hs, h) ==
    [host |-> h, hostid |-> hs[h].hostid, name |-> hs[h].name,
     description |-> hs[h].description, status |-> hs[h].status]

\* api.host.get(filter={"host": hostname}); an exception gives None
get_host_by_name(z, hostname, failed) ==
    LET ret == IF ~failed /\ hostname \in DOMAIN z.hosts
               THEN Some(HostDict(z.hosts, hostname)) ELSE None
    IN  [z |-> [z EXCEPT !.calls = Logged(z, "get_host_by_name", ret # None)],
         ret |-> ret, raised |-> FALSE]

\* The first host, in the order api.host.get() lists them (by hostid), one
\* of whose interfaces has the IP.
get_host_by_ip(z, ip, failed) ==
    LET matches == {h \in DOMAIN z.hosts : z.hosts[h].ip = ip}
        first == CHOOSE h \in matches :
                     \A g \in matches : z.hosts[h].hostid <= z.hosts[g].hostid
        ret == IF ~failed /\ matches # {}
               THEN Some(HostDict(z.hosts, first)) ELSE None
    IN  [z |-> [z EXCEPT !.calls = Logged(z, "get_host_by_ip", ret # None)],
         ret |-> ret, raised |-> FALSE]

\* Zabbix refuses a visible name another host already has
NameTaken(hs, h, name) == \E g \in DOMAIN hs : g # h /\ hs[g].name = name

NextHostId(hs) ==
    IF DOMAIN hs = {} THEN 1
    ELSE 1 + (CHOOSE n \in {hs[h].hostid : h \in DOMAIN hs} :
                  \A g \in DOMAIN hs : hs[g].hostid <= n)

\* host_params carries host, name, description and the interface; the
\* status of host_data is not passed on, so Zabbix creates the host with
\* its default status 0
create_host(z, host_data, fail) ==
    LET name == IF host_data.name = NoName THEN host_data.host
                ELSE host_data.name
        ok == /\ fail # "mutate"
              /\ host_data.host \notin DOMAIN z.hosts
              /\ ~NameTaken(z.hosts, host_data.host, name)
        hostid == NextHostId(z.hosts)
        created == Put(z.hosts, host_data.host,
                       [hostid |-> hostid, name |-> name,
                        description |-> IF host_data.description = Absent
                                        THEN "" ELSE host_data.description,
                        status |-> 0,
                        ip |-> IF host_data.ip = Absent THEN ""
                               ELSE host_data.ip])
    IN  [z |-> Sink(IF ok THEN created ELSE z.hosts,
                    Logged(z, "create_host", ok)),
         ret |-> IF ok THEN Some(hostid) ELSE None, raised |-> FALSE]

update_host(z, host_data, fail) ==
    LET h == host_data.host
        found == fail # "find" /\ h \in DOMAIN z.hosts
        name == IF host_data.name = NoName THEN h ELSE host_data.name
        description == IF host_data.description = Absent THEN ""
                       ELSE host_data.description
        status == IF host_data.status = NoStatus THEN 0 ELSE host_data.status
        hasIp == host_data.ip # Absent
        \* hostinterface.get, then hostinterface.update
        ifaceOk == ~hasIp \/ fail \notin {"ifget", "ifupdate"}
        withIp == IF hasIp /\ ifaceOk
                  THEN [z.hosts EXCEPT ![h].ip = host_data.ip] ELSE z.hosts
        \* host.update
        hostOk == ifaceOk /\ fail # "mutate" /\ ~NameTaken(z.hosts, h, name)
        updated == [withIp EXCEPT ![h].name = name,
                                  ![h].description = description,
                                  ![h].status = status]
        ok == found /\ hostOk
    IN  [z |-> Sink(IF ~found THEN z.hosts
                    ELSE IF hostOk THEN updated ELSE withIp,
                    Logged(z, "update_host", ok)),
         ret |-> ok, raised |-> FALSE]

\* without the except branch: an exception of the API leaves the method
delete_host_uncaught(z, hostname, fail) ==
    LET found == fail # "find" /\ hostname \in DOMAIN z.hosts
        ok == found /\ fail # "mutate"
    IN  [z |-> Sink(IF ok THEN Del(z.hosts, hostname) ELSE z.hosts,
                    Logged(z, "delete_host", ok)),
         ret |-> ok, raised |-> fail \in {"find", "mutate"}]

delete_host(z, hostname, fail) ==
    LET found == fail # "find" /\ hostname \in DOMAIN z.hosts
        ok == found /\ fail # "mutate"
    IN  [z |-> Sink(IF ok THEN Del(z.hosts, hostname) ELSE z.hosts,
                    Logged(z, "delete_host", ok)),
         ret |-> ok, raised |-> FALSE]

-----------------------------------------------------------------------------
(* src/src/message_processor.py.  A handler works on w = [buf, z]: the     *)
(* buffer and the sink with the calls made so far.  It returns the world   *)
(* it leaves, whether it raised, the sync instruction it returns and the   *)
(* record get_complete_device handed to it.                                *)

World(b, z) == [buf |-> b, z |-> z]

Returned(w, ret, got) ==
    [w |-> w, raised |-> FALSE, escaped |-> FALSE, ret |-> ret, got |-> got]

Raised(w, got) ==
    [w |-> w, raised |-> TRUE, escaped |-> TRUE, ret |-> None, got |-> got]

CreateInstruction(device) ==
    [action |-> "create", host |-> device.name, name |-> device.name,
     ip |-> device.ip, description |-> device.description,
     status |-> device.status]

\* self.device_buffer.cache_device_info(...): DeviceBuffer defines no such
\* method, so the call raises AttributeError and the return statement that
\* follows it is not reached.
cache_and_return(w, device_id, device, instruction) ==
    IF "cache_device_info" \in DeviceBufferMethods
    THEN Returned(w, Some(instruction), Some(device))
    ELSE Raised(w, Some(device))

\* cached_device = device_info_cache.get(device_id, {}) followed by an
\* update of that dict: an existing entry is changed in place, before
\* cache_device_info is called
touch_cache(b, device_id, name, description, status, ip) ==
    IF device_id \in DOMAIN b.device_info_cache
    THEN [b EXCEPT !.device_info_cache[device_id] =
             [name |-> IF name = NoName THEN @.name ELSE name,
              description |-> IF description = Absent THEN @.description
                              ELSE description,
              status |-> IF status = NoStatus THEN @.status ELSE status,
              ip |-> IF ip = Absent THEN @.ip ELSE ip]]
    ELSE b

\* No check of the previous payload
HasPreviousUnchecked(prev) == TRUE

\* "if payload_previous:": an absent or empty previous payload is false
HasPrevious(prev) == prev.present

\* INSERT of either table, after add_device or add_ip_for_device returned
\* a: "if complete: get_complete_device; if complete_device: cache, return"
hand_off(w, a, device_id) ==
    IF ~a.ret
    THEN Returned(World(a.buf, w.z), None, None)
    ELSE Bind(get_complete_device(a.buf, device_id), LAMBDA g :
             IF g.ret = None
             THEN Returned(World(g.buf, w.z), None, None)
             ELSE cache_and_return(World(g.buf, w.z), device_id, g.ret[1],
                                   CreateInstruction(g.ret[1])))

\* UPDATE of either table, after the lookup l found a host: update_host,
\* and on success the cache entry is changed and cache_device_info called
update_found(w, l, host_data, device_id, fail) ==
    Bind(update_host(l.z, host_data, fail), LAMBDA u :
        IF ~u.ret
        THEN Returned(World(w.buf, u.z), None, None)
        ELSE Raised(World(touch_cache(w.buf, device_id, host_data.name,
                                      host_data.description, host_data.status,
                                      host_data.ip),
                          u.z), None))

_process_netdevice(w, action, payload, prev, fail) ==
    LET device_id == payload.id
        clean_name == lstrip(payload.name)
        status == NormStatus(payload.status)
    IN  CASE action = "INSERT" ->
               Bind(add_device(w.buf, device_id,
                               [name |-> clean_name,
                                description |-> payload.description,
                                status |-> status, action |-> "create",
                                ip |-> Absent]),
                    LAMBDA a : hand_off(w, a, device_id))
          [] action = "UPDATE" ->
               IF ~HasPrevious(prev)
               THEN Returned(w, None, None)
               ELSE Bind(get_host_by_name(w.z, lstrip(prev.name),
                                          fail = "lookup"),
                         LAMBDA l :
                    IF l.ret = None
                    THEN Returned(World(w.buf, l.z), None, None)
                    ELSE update_found(w, l,
                                      [host |-> lstrip(prev.name),
                                       name |-> clean_name,
                                       description |-> payload.description,
                                       status |-> status, ip |-> Absent],
                                      device_id, fail))
          [] action = "DELETE" ->
               Returned(World(remove_device(w.buf, device_id), w.z), None, None)
          [] OTHER -> Returned(w, None, None)

\* No check of the foreign key
HasNetdevUnchecked(netdev_id) == TRUE

\* bool(netdev_id): None, 0 and "" are false
HasNetdev(netdev_id) == netdev_id.t # "none" /\ netdev_id.v # 0

\* DELETE of a node whose IP resolved to a host: delete_host, whose result
\* is not looked at, then restore_device_to_pending(netdev_id)
\* delete_host called again when the first call returned False
delete_found_retry(w, l, netdev_id, fail) ==
    Bind(delete_host(l.z, l.ret[1].host, fail), LAMBDA d :
        Bind(IF d.ret THEN d ELSE delete_host(d.z, l.ret[1].host, fail),
             LAMBDA d2 :
            Bind(restore_device_to_pending(w.buf, netdev_id), LAMBDA r :
                IF r.raised
                THEN Raised(World(r.buf, d2.z), None)
                ELSE Returned(World(r.buf, d2.z), None, None))))

delete_found(w, l, netdev_id, fail) ==
    Bind(delete_host(l.z, l.ret[1].host, fail), LAMBDA d :
        Bind(restore_device_to_pending(w.buf, netdev_id), LAMBDA r :
            IF r.raised
            THEN Raised(World(r.buf, d.z), None)
            ELSE Returned(World(r.buf, d.z), None, None)))

_process_node(w, action, payload, prev, fail) ==
    LET netdev_id == payload.netdev
        ip_string == ip_to_string(payload.ipaddr)
    IN  IF ~FitsFourBytes(payload.ipaddr) THEN Raised(w, None)
        ELSE IF ~HasNetdev(netdev_id) THEN Returned(w, None, None)
        ELSE
        CASE action = "INSERT" ->
               Bind(add_ip_for_device(w.buf, netdev_id, ip_string),
                    LAMBDA a : hand_off(w, a, netdev_id))
          [] action = "UPDATE" ->
               IF ~HasPrevious(prev)
               THEN Returned(w, None, None)
               ELSE IF ~FitsFourBytes(prev.ipaddr) THEN Raised(w, None)
               ELSE Bind(get_host_by_ip(w.z, ip_to_string(prev.ipaddr),
                                        fail = "lookup"),
                         LAMBDA l :
                    IF l.ret = None
                    THEN Returned(World(w.buf, l.z), None, None)
                    ELSE update_found(w, l,
                                      [host |-> l.ret[1].host,
                                       name |-> NoName,
                                       description |-> Absent,
                                       status |-> NoStatus,
                                       ip |-> ip_string],
                                      netdev_id, fail))
          [] action = "DELETE" ->
               IF ~Truthy(ip_string)
               THEN Returned(w, None, None)
               ELSE Bind(get_host_by_ip(w.z, ip_string, fail = "lookup"),
                         LAMBDA l :
                    IF l.ret = None
                    THEN Returned(World(w.buf, l.z), None, None)
                    ELSE delete_found(w, l, netdev_id, fail))
          [] OTHER -> Returned(w, None, None)

\* No "except Exception": what a handler raises leaves parse_lms_message
parse_lms_message_uncaught(w, e, fail) ==
    IF e.shape = "badjson" THEN Returned(w, None, None)
    ELSE IF e.table = "netdevices"
    THEN _process_netdevice(w, e.action, e.payload, e.prev, fail)
    ELSE IF e.table = "nodes"
    THEN _process_node(w, e.action, e.payload, e.prev, fail)
    ELSE Returned(w, None, None)

\* json.loads of a body that is not JSON raises JSONDecodeError; that and
\* every exception of a handler is caught and None is returned, with
\* whatever the handler had done before it raised left in place
parse_lms_message(w, e, fail) ==
    Bind(IF e.shape = "badjson" THEN Returned(w, None, None)
         ELSE IF e.table = "netdevices"
         THEN _process_netdevice(w, e.action, e.payload, e.prev, fail)
         ELSE IF e.table = "nodes"
         THEN _process_node(w, e.action, e.payload, e.prev, fail)
         ELSE Returned(w, None, None),
         LAMBDA r : [r EXCEPT !.escaped = FALSE])

-----------------------------------------------------------------------------
(* src/src/sync.py *)

\* zabbix_data as create_host and update_host read it
HostData(instruction) ==
    [host |-> instruction.host, name |-> instruction.name,
     description |-> instruction.description, status |-> instruction.status,
     ip |-> instruction.ip]

\* the dispatch of a returned instruction to the Zabbix client; the whole
\* of process_message is inside try / except Exception: return False
dispatch(p, zabbix_data, fail) ==
    IF ~TruthyName(zabbix_data.host)
    THEN [p |-> p, w |-> p.w, raised |-> FALSE, success |-> FALSE]
    ELSE CASE zabbix_data.action = "create" ->
                Bind(create_host(p.w.z, HostData(zabbix_data), fail), LAMBDA c :
                    [p |-> p, w |-> World(p.w.buf, c.z), raised |-> FALSE,
                     success |-> c.ret # None])
           [] zabbix_data.action = "update" ->
                Bind(update_host(p.w.z, HostData(zabbix_data), fail), LAMBDA u :
                    [p |-> p, w |-> World(p.w.buf, u.z), raised |-> FALSE,
                     success |-> u.ret])
           [] zabbix_data.action = "delete" ->
                Bind(delete_host(p.w.z, zabbix_data.host, fail), LAMBDA d :
                    [p |-> p, w |-> World(p.w.buf, d.z), raised |-> FALSE,
                     success |-> d.ret])
           [] OTHER -> [p |-> p, w |-> p.w, raised |-> FALSE, success |-> FALSE]

process_message(w, e, fail) ==
    Bind(parse_lms_message(w, e, fail), LAMBDA p :
        IF p.escaped
        THEN [p |-> p, w |-> p.w, raised |-> FALSE, success |-> FALSE]
        ELSE IF p.ret = None
        THEN [p |-> p, w |-> p.w, raised |-> FALSE, success |-> TRUE]
        ELSE dispatch(p, p.ret[1], fail))

\* What one delivery did: the event, whether the broker had delivered it
\* before, the calls on the channel, the instruction parse_lms_message
\* returned, whether a handler raised, the record taken from the buffer,
\* the calls on the Zabbix client, and whether buffer and sink changed.
Delivery(e, redelivery, acks, nacks, instr, raised, got, calls, chg, before) ==
    [shape |-> "delivery", event |-> e, redelivery |-> redelivery,
     acks |-> acks, nacks |-> nacks, instr |-> instr, raised |-> raised,
     got |-> got, calls |-> calls, bufChanged |-> chg, hostsBefore |-> before]

\* body.decode('utf-8') raises UnicodeDecodeError for bytes that are not
\* UTF-8, before process_message is called; the except branch rejects the
\* delivery with requeue
message_callback(w, e, redelivery, fail) ==
    IF e.shape = "undecodable"
    THEN [w |-> w,
          last |-> Delivery(e, redelivery, 0, 1, None, FALSE, None, <<>>,
                            FALSE, w.z.hosts)]
    ELSE Bind(process_message(w, e, fail), LAMBDA r :
             [w |-> r.w,
              last |-> Delivery(e, redelivery,
                                IF r.success THEN 1 ELSE 0,
                                IF r.success THEN 0 ELSE 1,
                                r.p.ret, r.p.raised, r.p.got, r.w.z.calls,
                                r.w.buf # w.buf, w.z.hosts)])

-----------------------------------------------------------------------------
(* The deliveries: the bodies the broker hands to message_callback *)

Payload(id, attrs, ipaddr, netdev) ==
    [id |-> id, name |-> attrs.name, description |-> attrs.description,
     status |-> attrs.status, ipaddr |-> ipaddr, netdev |-> netdev]

\* the defaults payload.get falls back to
NoAttrs == [name |-> <<>>, description |-> "", status |-> 0]

\* "PayloadPrevious" missing, empty or {}
NoPrev == [present |-> FALSE, name |-> <<>>, ipaddr |-> Addr0]

PrevName(name) == [present |-> TRUE, name |-> name, ipaddr |-> Addr0]

PrevAddr(a) == [present |-> TRUE, name |-> <<>>, ipaddr |-> a]

Envelope(table, action, payload, prev) ==
    [shape |-> "envelope", table |-> table, action |-> action,
     payload |-> payload, prev |-> prev]

\* bytes that are not UTF-8, and text that is not JSON
Malformed(shape) ==
    [shape |-> shape, table |-> "", action |-> "",
     payload |-> Payload(NoneKey, NoAttrs, Addr0, NoneKey), prev |-> NoPrev]

\* the netdev of a nodes payload: a device number, or missing
NodeNetdevs == {IntKey(n) : n \in DeviceNums} \cup {NoneKey}

NamedAttrs == {a \in AttrVariants : a.name # <<>>}

NetdevEvents ==
    {Envelope("netdevices", "INSERT", Payload(k, a, Addr0, NoneKey), NoPrev) :
        k \in PayloadIds, a \in AttrVariants}
    \cup {Envelope("netdevices", "UPDATE", Payload(k, a, Addr0, NoneKey), pv) :
              k \in PayloadIds, a \in NamedAttrs,
              pv \in {NoPrev, PrevName(<<"#", "a">>)}}
    \cup {Envelope("netdevices", "DELETE", Payload(k, NoAttrs, Addr0, NoneKey),
                   NoPrev) : k \in PayloadIds}

NodeEvents ==
    {Envelope("nodes", "INSERT", Payload(IntKey(7), NoAttrs, a, k), NoPrev) :
        k \in NodeNetdevs, a \in {Addr0, AddrA, AddrB, AddrTooBig}}
    \cup {Envelope("nodes", "UPDATE", Payload(IntKey(7), NoAttrs, a, k), pv) :
              k \in NodeNetdevs, a \in {AddrA, AddrB},
              pv \in {NoPrev, PrevAddr(AddrA)}}
    \cup {Envelope("nodes", "DELETE", Payload(IntKey(7), NoAttrs, a, k), NoPrev) :
              k \in NodeNetdevs, a \in {Addr0, AddrA, AddrB}}

OtherEvents ==
    {Malformed("undecodable"), Malformed("badjson"),
     Envelope("customers", "INSERT", Payload(IntKey(1), NoAttrs, Addr0, NoneKey),
              NoPrev)}

Events == NetdevEvents \cup NodeEvents \cup OtherEvents

\* the events whose handler may call the Zabbix API
CallsSink(e) ==
    /\ e.shape = "envelope"
    /\ \/ e.table = "netdevices" /\ e.action = "UPDATE"
       \/ e.table = "nodes" /\ e.action \in {"UPDATE", "DELETE"}

\* the hosts the inventory holds when the consumer starts
HostA == [hostid |-> 1, name |-> <<"a">>, description |-> "d1", status |-> 1,
          ip |-> ip_to_string(AddrA)]

HostB == [hostid |-> 2, name |-> <<"b">>, description |-> "d2", status |-> 0,
          ip |-> ip_to_string(AddrB)]

SinkInits ==
    {EmptyDict, Put(EmptyDict, <<"a">>, HostA),
     Put(Put(EmptyDict, <<"a">>, HostA), <<"b">>, HostB)}

NamedKeys == {p[1] : p \in nameGiven}

NumbersWithIp == {p[1] : p \in ipGiven}

\* the halves an event supplies to the join
GivesName(e) ==
    /\ e.shape = "envelope" /\ e.table = "netdevices" /\ e.action = "INSERT"
    /\ TruthyName(lstrip(e.payload.name))

GivesIp(e) ==
    /\ e.shape = "envelope" /\ e.table = "nodes" /\ e.action = "INSERT"
    /\ HasNetdev(e.payload.netdev)
    /\ FitsFourBytes(e.payload.ipaddr)
    /\ e.payload.ipaddr # Addr0

Process(e, redelivery, fail) ==
    \E r \in {message_callback(World(Buf, Sink(hosts, <<>>)), e, redelivery,
                                fail)} :
        /\ SetBuf(r.w.buf)
        /\ hosts' = r.w.z.hosts
        /\ last' = r.last
        /\ delivered' = delivered + 1
        /\ requeued' = IF r.last.nacks > 0 THEN Some(e) ELSE None
        /\ nameGiven' = IF GivesName(e)
                        THEN nameGiven \cup
                             {<<e.payload.id, DeviceData(e.payload)>>}
                        ELSE nameGiven
        /\ ipGiven' = IF GivesIp(e)
                      THEN ipGiven \cup {<<e.payload.netdev.v,
                                           ip_to_string(e.payload.ipaddr)>>}
                      ELSE ipGiven
        /\ UNCHANGED <<snapshot, call>>

\* basic_qos(prefetch_count=1): one delivery at a time; a new one comes
\* only when the broker holds none for redelivery
Deliver(e, fail) ==
    /\ delivered < MaxDeliveries
    /\ requeued = None
    /\ fail = "none" \/ CallsSink(e)
    /\ Process(e, FALSE, fail)

\* basic_nack(requeue=True): the broker delivers the same body again
Redeliver(fail) ==
    /\ delivered < MaxDeliveries
    /\ requeued # None
    /\ fail = "none" \/ CallsSink(requeued[1])
    /\ Process(requeued[1], TRUE, fail)

Init ==
    /\ snapshot \in SnapshotFiles
    /\ pending_devices = load_state(snapshot).pending_devices
    /\ device_ips = load_state(snapshot).device_ips
    /\ device_info_cache = load_state(snapshot).device_info_cache
    /\ hosts \in SinkInits
    /\ requeued = None
    /\ delivered = 0
    /\ last = [Delivery(Malformed("none"), FALSE, 0, 0, None, FALSE, None,
                        <<>>, FALSE, EmptyDict) EXCEPT !.shape = "none"]
    /\ nameGiven = {}
    /\ ipGiven = {}
    /\ call = [op |-> "none"]

Next ==
    \/ \E e \in Events, fail \in FailPoints : Deliver(e, fail)
    \/ \E fail \in FailPoints : Redeliver(fail)

Spec == Init /\ [][Next]_vars

-----------------------------------------------------------------------------
(* Direct calls on a DeviceBuffer: the buffer's methods called one at a    *)
(* time, as unit tests of src/src/buffer.py would call them.               *)

NoCall == [op |-> "none", key |-> NoneKey, ip |-> Absent, ret |-> FALSE,
           got |-> None, raised |-> FALSE, cached |-> None,
           before |-> Buffer(EmptyDict, EmptyDict, EmptyDict), file |-> None]

CallAddDevice(k, attrs) ==
    LET r == add_device(Buf, k, DeviceData(attrs))
    IN  /\ SetBuf(r.buf)
        /\ call' = [NoCall EXCEPT !.op = "add_device"]
        /\ nameGiven' = IF TruthyName(lstrip(attrs.name))
                        THEN nameGiven \cup {<<k, DeviceData(attrs)>>}
                        ELSE nameGiven
        /\ UNCHANGED <<ipGiven, snapshot, systemVars>>

CallAddIp(k, ip) ==
    LET r == add_ip_for_device(Buf, k, ip)
    IN  /\ SetBuf(r.buf)
        /\ call' = [NoCall EXCEPT !.op = "add_ip_for_device"]
        /\ ipGiven' = IF Truthy(ip) THEN ipGiven \cup {<<k.v, ip>>} ELSE ipGiven
        /\ UNCHANGED <<nameGiven, snapshot, systemVars>>

CallGetComplete(k) ==
    LET r == get_complete_device(Buf, k)
    IN  /\ SetBuf(r.buf)
        /\ call' = [NoCall EXCEPT !.op = "get_complete_device", !.key = k,
                                  !.got = r.ret]
        /\ UNCHANGED <<historyVars, snapshot, systemVars>>

CallRemove(k) ==
    /\ SetBuf(remove_device(Buf, k))
    /\ call' = [NoCall EXCEPT !.op = "remove_device", !.key = k]
    /\ UNCHANGED <<historyVars, snapshot, systemVars>>

\* restore_device_to_pending(netdev_id) as _process_node calls it, followed
\* (when the caller survives the exception) by add_ip_for_device
CallRestoreThenAddIp(k, ip) ==
    LET r == restore_device_to_pending(Buf, k)
        a == add_ip_for_device(r.buf, k, ip)
    IN  /\ SetBuf(a.buf)
        /\ call' = [NoCall EXCEPT
                        !.op = "restore_device_to_pending+add_ip_for_device",
                        !.key = k, !.ip = ip, !.ret = a.ret,
                        !.raised = r.raised,
                        !.got = IF str(k) \in DOMAIN r.buf.pending_devices
                                THEN Some(r.buf.pending_devices[str(k)])
                                ELSE None,
                        !.cached = IF str(k) \in DOMAIN device_info_cache
                                   THEN Some(device_info_cache[str(k)])
                                   ELSE None]
        /\ ipGiven' = IF Truthy(ip) THEN ipGiven \cup {<<k.v, ip>>} ELSE ipGiven
        /\ UNCHANGED <<nameGiven, snapshot, systemVars>>

\* save_state(), then a new DeviceBuffer, whose __init__ calls load_state()
CallSaveThenLoad ==
    \E f \in save_state(Buf) :
        /\ snapshot' = f
        /\ SetBuf(load_state(f))
        /\ call' = [NoCall EXCEPT !.op = "save_state+load_state",
                                  !.before = Buf, !.file = snapshot]
        /\ UNCHANGED <<historyVars, systemVars>>

\* save_state() in a process that may die inside the call, then the next
\* process, whose DeviceBuffer loads what the file holds
CallSaveInterrupted ==
    \E f \in save_state_interrupted(Buf, snapshot) :
        /\ snapshot' = f
        /\ SetBuf(load_state(f))
        /\ call' = [NoCall EXCEPT !.op = "save_state interrupted",
                                  !.before = Buf, !.file = snapshot]
        /\ UNCHANGED <<historyVars, systemVars>>

InitBuffer ==
    /\ snapshot \in SnapshotFiles
    /\ pending_devices = load_state(snapshot).pending_devices
    /\ device_ips = load_state(snapshot).device_ips
    /\ device_info_cache = load_state(snapshot).device_info_cache
    /\ hosts = EmptyDict
    /\ requeued = None
    /\ delivered = 0
    /\ last = [shape |-> "none"]
    /\ nameGiven = {}
    /\ ipGiven = {}
    /\ call = NoCall

NextBuffer ==
    \/ \E k \in PayloadIds, attrs \in CallAttrs : CallAddDevice(k, attrs)
    \/ \E k \in PayloadIds, ip \in CallIps : CallAddIp(k, ip)
    \/ \E k \in PayloadIds : CallGetComplete(k)
    \/ \E k \in PayloadIds : CallRemove(k)
    \/ \E k \in PayloadIds, ip \in CallIps : CallRestoreThenAddIp(k, ip)
    \/ CallSaveThenLoad
    \/ CallSaveInterrupted

SpecBuffer == InitBuffer /\ [][NextBuffer]_vars

-----------------------------------------------------------------------------
(* Direct calls on the ZabbixAPIClient and on process_message, against an  *)
(* inventory whose API requests may raise.                                 *)

NoSinkCall == [op |-> "none", host |-> <<>>, fail |-> "none", ok |-> FALSE,
               calls |-> <<>>,
               raised |-> FALSE, before |-> EmptyDict]

SinkCall(op, host, fail, ok, raised) ==
    [op |-> op, host |-> host, fail |-> fail, ok |-> ok, raised |-> raised,
     calls |-> <<>>,
     before |-> hosts]

\* the host_data of the direct calls: an existing and a new host name, with
\* and without a visible name and an IP
SinkHostData ==
    {[host |-> h, name |-> n, description |-> "d3", status |-> 1, ip |-> ip] :
        h \in {<<"a">>, <<"c">>}, n \in {NoName, <<"b">>},
        ip \in {Absent, ip_to_string(AddrB)}}

SinkStep(z, c) ==
    /\ delivered < MaxDeliveries
    /\ delivered' = delivered + 1
    /\ hosts' = z.hosts
    /\ call' = c
    /\ UNCHANGED <<bufferVars, historyVars, snapshot, requeued, last>>

CallCreateHost(hd, fail) ==
    \E r \in {create_host(Sink(hosts, <<>>), hd, fail)} :
        SinkStep(r.z, SinkCall("create_host", hd.host, fail, r.ret # None,
                               r.raised))

CallUpdateHost(hd, fail) ==
    \E r \in {update_host(Sink(hosts, <<>>), hd, fail)} :
        SinkStep(r.z, SinkCall("update_host", hd.host, fail, r.ret, r.raised))

CallDeleteHost(h, fail) ==
    \E r \in {delete_host(Sink(hosts, <<>>), h, fail)} :
        SinkStep(r.z, SinkCall("delete_host", h, fail, r.ret, r.raised))

CallGetHostByName(h, fail) ==
    \E r \in {get_host_by_name(Sink(hosts, <<>>), h, fail = "lookup")} :
        SinkStep(r.z, SinkCall("get_host_by_name", h, fail, r.ret # None,
                               r.raised))

CallGetHostByIp(ip, fail) ==
    \E r \in {get_host_by_ip(Sink(hosts, <<>>), ip, fail = "lookup")} :
        SinkStep(r.z, SinkCall("get_host_by_ip", <<>>, fail, r.ret # None,
                               r.raised))

\* process_message(message_body) for the bodies whose handler calls the
\* Zabbix client
CallProcessMessage(e, fail) ==
    \E r \in {process_message(World(Buf, Sink(hosts, <<>>)), e, fail)} :
        /\ delivered < MaxDeliveries
        /\ delivered' = delivered + 1
        /\ SetBuf(r.w.buf)
        /\ hosts' = r.w.z.hosts
        /\ call' = [SinkCall("process_message", <<>>, fail, r.success,
                             r.raised) EXCEPT !.calls = r.w.z.calls]
        /\ UNCHANGED <<historyVars, snapshot, requeued, last>>

InitSink ==
    /\ snapshot \in SnapshotFiles
    /\ SetBufInit(load_state(snapshot))
    /\ hosts \in SinkInits
    /\ requeued = None
    /\ delivered = 0
    /\ last = [shape |-> "none"]
    /\ nameGiven = {}
    /\ ipGiven = {}
    /\ call = NoSinkCall

NextSink ==
    \/ \E hd \in SinkHostData, fail \in {"none", "mutate"} :
          CallCreateHost(hd, fail)
    \/ \E hd \in SinkHostData, fail \in FailPoints \ {"lookup"} :
          CallUpdateHost(hd, fail)
    \/ \E h \in {<<"a">>, <<"c">>}, fail \in {"none", "find", "mutate"} :
          CallDeleteHost(h, fail)
    \/ \E h \in {<<"a">>, <<"c">>}, fail \in {"none", "lookup"} :
          CallGetHostByName(h, fail)
    \/ \E ip \in IpTexts, fail \in {"none", "lookup"} :
          CallGetHostByIp(ip, fail)
    \/ \E e \in {x \in Events : CallsSink(x)}, fail \in FailPoints :
          CallProcessMessage(e, fail)

SpecSink == InitSink /\ [][NextSink]_vars

-----------------------------------------------------------------------------
(* Direct calls of the static method ip_to_string, with the node handler's  *)
(* use of the decoded text (add_ip_for_device) between them.               *)

\* the arguments: 0, the documented addresses, the ends of the range of
\* each byte, and one integer that does not fit four bytes
CodecAddrs ==
    {Addr(hi, lo) : hi \in {0, 1, 256, 49320, 65535},
                    lo \in {0, 1, 257, 65535}}
    \cup {AddrTooBig}

NoDecode == [op |-> "none", arg |-> Addr0, text |-> Absent, raised |-> FALSE,
             prevArg |-> Addr0, prevText |-> Absent]

\* LMSMessageProcessor.ip_to_string(ip_int); OverflowError when the integer
\* does not fit four bytes
CallDecode(a) ==
    /\ call' = [op |-> "ip_to_string", arg |-> a,
                text |-> IF FitsFourBytes(a) THEN ip_to_string(a) ELSE Absent,
                raised |-> ~FitsFourBytes(a),
                prevArg |-> call.arg, prevText |-> call.text]
    /\ UNCHANGED <<bufferVars, historyVars, snapshot, systemVars>>

\* what _process_node does with the decoded text on INSERT
CallStoreDecoded ==
    /\ call.op = "ip_to_string"
    /\ ~call.raised
    /\ SetBuf(add_ip_for_device(Buf, IntKey(1), call.text).buf)
    /\ UNCHANGED <<call, historyVars, snapshot, systemVars>>

InitCodec ==
    /\ snapshot = None
    /\ SetBufInit(load_state(None))
    /\ hosts = EmptyDict
    /\ requeued = None
    /\ delivered = 0
    /\ last = [shape |-> "none"]
    /\ nameGiven = {}
    /\ ipGiven = {}
    /\ call = NoDecode

NextCodec ==
    \/ \E a \in CodecAddrs : CallDecode(a)
    \/ CallStoreDecoded

SpecCodec == InitCodec /\ [][NextCodec]_vars

-----------------------------------------------------------------------------
(* Claims on the buffer *)

\* C1 (as claimed): on a fresh buffer, for an identity that add_device
\* receives as a number, get_complete_device returns a record if and only
\* if a non-empty name and a non-empty IP have both been supplied for it.
C1_CompleteIffBothSupplied ==
    (/\ snapshot = None
     /\ call.op = "get_complete_device"
     /\ call.key.t = "int"
     /\ StrKey(call.key.v) \notin NamedKeys)
    => (call.got # None
        <=> (call.key \in NamedKeys /\ call.key.v \in NumbersWithIp))

C6_RestoreThenIpCompletes ==
    (/\ call.op = "restore_device_to_pending+add_ip_for_device"
     /\ call.cached # None
     /\ Truthy(call.ip))
    => /\ call.ret <=> TruthyName(call.cached[1].name)
       /\ call.got # None => ~Truthy(call.got[1].ip)

\* C12 (as claimed): save_state followed by load_state in a new
\* DeviceBuffer gives a buffer with the same three maps as the one saved.
C12_SnapshotRoundTrip ==
    call.op = "save_state+load_state" => Buf = call.before

\* C14 (as claimed): when the process dies inside save_state, the snapshot
\* file holds either what it held before the call or a complete snapshot
\* of the buffer being saved.
C14_SaveIsAtomic ==
    call.op = "save_state interrupted"
    => \/ snapshot = call.file
       \/ snapshot \in save_state(call.before)

\* C15 (as claimed): each map holds at most one entry per device number,
\* whether the number came as a number or as text, and remove_device for
\* a device leaves no entry for that device number in either map.
C15_OneEntryPerIdentity ==
    /\ \A n \in DeviceNums :
          /\ Cardinality({k \in DOMAIN pending_devices : k.v = n}) <= 1
          /\ Cardinality({k \in DOMAIN device_ips : k.v = n}) <= 1
    /\ call.op = "remove_device"
          => \A k \in DOMAIN pending_devices \cup DOMAIN device_ips :
                 k.v # call.key.v

-----------------------------------------------------------------------------
(* Claims on the IP codec *)

Quad(b1, b2, b3, b4) ==
    ToString(b1) \o "." \o ToString(b2) \o "." \o ToString(b3) \o "."
    \o ToString(b4)

\* the byte b with b * 256 <= n < (b + 1) * 256
HighByte(n) == CHOOSE b \in 0 .. 255 : b * 256 <= n /\ n < (b + 1) * 256

\* C16: ip_to_string(0) is the empty text; for every other integer that
\* fits four bytes the text is b1.b2.b3.b4 with
\* n = ((b1 * 256 + b2) * 256 + b3) * 256 + b4 and every b in 0..255;
\* 3232235521 gives "192.168.0.1"; and a call with the argument of the
\* previous call returns the text the previous call returned, whatever
\* was stored in the buffer in between.
C16_DecodeIsDottedQuad ==
    (call.op = "ip_to_string" /\ ~call.raised)
    => /\ call.arg = Addr0 => call.text = ""
       /\ call.arg # Addr0 =>
             LET b1 == HighByte(call.arg.hi)
                 b3 == HighByte(call.arg.lo)
             IN  call.text = Quad(b1, call.arg.hi - b1 * 256,
                                  b3, call.arg.lo - b3 * 256)
       /\ call.arg = AddrA => call.text = "192.168.0.1"
       /\ call.prevArg = call.arg /\ call.prevText # Absent
             => call.prevText = call.text

C16_Witness ==
    /\ call.op = "ip_to_string"
    /\ call.arg = AddrA
    /\ call.prevArg = AddrA
    /\ call.text = "192.168.0.1"
    /\ StrKey(1) \in DOMAIN device_ips
    /\ device_ips[StrKey(1)] = "255.255.255.255"

-----------------------------------------------------------------------------
(* Claims on the sink client *)

\* the API request named by fail is one the call makes
FailHits(c) ==
    \/ c.op = "create_host" /\ c.fail = "mutate"
    \/ c.op = "update_host" /\ c.fail \in {"find", "mutate"}
    \/ c.op = "delete_host" /\ c.fail \in {"find", "mutate"}
    \/ c.op \in {"get_host_by_name", "get_host_by_ip"} /\ c.fail = "lookup"

\* C18: no call on the sink client raises; create_host for a host the
\* inventory already holds, delete_host for a host it does not hold, and
\* every call one of whose API requests raises, return None / False and
\* (create, delete, lookups) leave the inventory as it was; and
\* process_message returns a boolean without raising.
C18_SinkFailureIsAResult ==
    call.op # "none"
    => /\ ~call.raised
       /\ call.ok \in BOOLEAN
       /\ (call.op = "create_host" /\ call.host \in DOMAIN call.before)
             => ~call.ok /\ hosts = call.before
       /\ (call.op = "delete_host" /\ call.host \notin DOMAIN call.before)
             => ~call.ok /\ hosts = call.before
       /\ FailHits(call)
             => /\ ~call.ok
                /\ call.op # "update_host" => hosts = call.before

C18_Witness ==
    /\ call.op = "create_host"
    /\ call.host \in DOMAIN call.before
    /\ call.fail = "none"
    /\ ~call.ok
    /\ ~call.raised

-----------------------------------------------------------------------------
(* Claims on the deliveries *)

IsDelivery == last.shape = "delivery"

Mutations == {"create_host", "update_host", "delete_host"}

CallsOf(ops) == SelectSeq(last.calls, LAMBDA c : c.op \in ops)

FailedMutation == \E i \in DOMAIN last.calls :
                      last.calls[i].op \in Mutations /\ ~last.calls[i].ok

\* the device number an INSERT event is about
DeviceOf(e) ==
    IF e.table = "netdevices" THEN e.payload.id ELSE e.payload.netdev

\* C2 (as claimed): from an empty buffer, of a netdevice INSERT with a
\* non-empty name and a node INSERT with a non-zero address for the same
\* numeric device, the first emits no instruction and the second emits
\* exactly one create instruction, passed to create_host, with the
\* stripped name, the decoded IP, the description and the 0/1 status.
C2_SecondInsertCreates ==
    (/\ IsDelivery
     /\ snapshot = None
     /\ ~last.redelivery
     /\ GivesName(last.event) \/ GivesIp(last.event)
     /\ DeviceOf(last.event).t = "int")
    => /\ delivered = 1 => last.instr = None
       /\ delivered = 2 =>
             \A p \in nameGiven, q \in ipGiven :
                 (p[1] = DeviceOf(last.event) /\ q[1] = p[1].v)
                 => /\ last.instr =
                          Some(CreateInstruction([p[2] EXCEPT !.ip = q[2]]))
                    /\ Len(CallsOf({"create_host"})) = 1

\* C4 (its case): parse_lms_message returns no instruction in any
\* delivery, so no create instruction is ever emitted and the claim has no
\* case to be checked on.
NoInstructionIsEverReturned == last.instr = None /\ CallsOf({"create_host"}) = <<>>

\* C5 (as claimed): a node DELETE for a device with a cached snapshot,
\* whose address is the IP of a host in the sink, deletes exactly that
\* host and leaves a pending entry for the device with the cached name,
\* description and status and without IP.
C5_NodeDeleteRestores ==
    LET e == last.event
        ip == ip_to_string(e.payload.ipaddr)
        key == str(e.payload.netdev)
        resolved == {h \in DOMAIN last.hostsBefore :
                        last.hostsBefore[h].ip = ip}
    IN  (/\ IsDelivery
         /\ e.shape = "envelope" /\ e.table = "nodes" /\ e.action = "DELETE"
         /\ HasNetdev(e.payload.netdev)
         /\ Truthy(ip)
         /\ resolved # {}
         /\ key \in DOMAIN device_info_cache
         /\ \A i \in DOMAIN last.calls : last.calls[i].ok)
        => /\ Len(CallsOf({"delete_host"})) = 1
           /\ \E h \in resolved : hosts = Del(last.hostsBefore, h)
           /\ key \in DOMAIN pending_devices
           /\ pending_devices[key].name = device_info_cache[key].name
           /\ pending_devices[key].description
                  = device_info_cache[key].description
           /\ pending_devices[key].status = device_info_cache[key].status
           /\ ~Truthy(pending_devices[key].ip)

\* C7 (as claimed): every delivery gets exactly one basic_ack or
\* basic_nack, and basic_nack only when a sink create, update or delete
\* call of this delivery failed.
C7_NackOnlyOnFailedSinkCall ==
    IsDelivery
    => /\ last.acks + last.nacks = 1
       /\ last.nacks = 1 => FailedMutation

\* C8 (as claimed): a delivery whose sink create, update or delete call
\* fails is rejected for redelivery, and a delivery that hands off a
\* complete device either leaves its host in the sink or is rejected for
\* redelivery.
C8_FailedSinkCallIsRedelivered ==
    IsDelivery
    => /\ FailedMutation => (last.nacks = 1 /\ requeued = Some(last.event))
       /\ last.got # None
             => \/ last.got[1].name \in DOMAIN hosts
                \/ last.nacks = 1

\* C9: an UPDATE event without a previous payload makes no sink call,
\* leaves buffer and sink as they were, and is acknowledged.
C9_UpdateWithoutPreviousIsNoOp ==
    (/\ IsDelivery
     /\ last.event.shape = "envelope"
     /\ last.event.table \in {"netdevices", "nodes"}
     /\ last.event.action = "UPDATE"
     /\ ~last.event.prev.present)
    => /\ last.calls = <<>>
       /\ ~last.bufChanged
       /\ hosts = last.hostsBefore
       /\ last.instr = None
       /\ last.acks = 1 /\ last.nacks = 0

C9_Witness ==
    /\ IsDelivery
    /\ last.event.shape = "envelope"
    /\ last.event.table = "netdevices"
    /\ last.event.action = "UPDATE"
    /\ ~last.event.prev.present
    /\ lstrip(last.event.payload.name) \in DOMAIN hosts
    /\ DOMAIN pending_devices # {}
    /\ last.acks = 1

\* C10: when a table handler raises, parse_lms_message returns no
\* instruction and the delivery is acknowledged and not requeued.
C10_HandlerExceptionIsDropped ==
    (IsDelivery /\ last.raised)
    => /\ last.instr = None
       /\ last.acks = 1 /\ last.nacks = 0
       /\ requeued = None

C10_Witness ==
    /\ IsDelivery
    /\ last.raised
    /\ last.event.table = "nodes"
    /\ last.event.action = "DELETE"
    /\ hosts # last.hostsBefore
    /\ last.acks = 1

\* C11 (as claimed): a delivery whose body is a malformed envelope (bytes
\* that are not text, text that is not JSON, an envelope without a known
\* table) leaves the buffer unchanged, makes no sink call, and is
\* acknowledged and not held for redelivery.
C11_MalformedIsDropped ==
    (/\ IsDelivery
     /\ \/ last.event.shape \in {"undecodable", "badjson"}
        \/ last.event.table \notin {"netdevices", "nodes"})
    => /\ ~last.bufChanged
       /\ last.calls = <<>>
       /\ hosts = last.hostsBefore
       /\ last.acks = 1 /\ last.nacks = 0
       /\ requeued = None

\* C13 (as claimed): after every processed delivery the snapshot file
\* holds the buffer of the process, so that a new DeviceBuffer loading it
\* has the same pending devices, pending IPs and info cache.
C13_SnapshotEqualsBuffer ==
    IsDelivery => load_state(snapshot) = Buf

C19_NetdeviceDeleteClears ==
    (/\ IsDelivery
     /\ last.event.shape = "envelope"
     /\ last.event.table = "netdevices" /\ last.event.action = "DELETE")
    => /\ \A k \in DOMAIN pending_devices \cup DOMAIN device_ips :
              k.v # last.event.payload.id.v
       /\ last.calls = <<>>
       /\ last.instr = None

\* C20 (as claimed): after a netdevice UPDATE whose stripped previous name
\* is a host of the sink and whose update_host call succeeded, that host
\* has the new name, description and status, and the info cache holds an
\* entry for the device with the new name, description and status.
C20_UpdateRefreshesHostAndCache ==
    LET e == last.event
        h == lstrip(e.prev.name)
        key == str(e.payload.id)
        updates == CallsOf({"update_host"})
    IN  (/\ IsDelivery
         /\ e.shape = "envelope"
         /\ e.table = "netdevices" /\ e.action = "UPDATE"
         /\ e.prev.present
         /\ h \in DOMAIN last.hostsBefore
         /\ updates # <<>> /\ updates[1].ok)
        => /\ h \in DOMAIN hosts
           /\ hosts[h].name = lstrip(e.payload.name)
           /\ hosts[h].description = e.payload.description
           /\ hosts[h].status = NormStatus(e.payload.status)
           /\ \E k \in DOMAIN device_info_cache :
                 /\ k.v = key.v
                 /\ device_info_cache[k].name = lstrip(e.payload.name)
                 /\ device_info_cache[k].description = e.payload.description
                 /\ device_info_cache[k].status = NormStatus(e.payload.status)

\* C21 (as claimed): a netdevice UPDATE whose stripped previous name is
\* not a host of the sink but is the name of a pending device replaces the
\* name, description and status of that pending entry by the new values,
\* makes no sink mutation and returns no instruction.
C21_UpdateOfPendingRenames ==
    [][LET e == last'.event
           h == lstrip(e.prev.name)
           named == {k \in DOMAIN pending_devices :
                        pending_devices[k].name = h}
       IN  (/\ last'.shape = "delivery"
            /\ delivered' = delivered + 1
            /\ e.shape = "envelope"
            /\ e.table = "netdevices" /\ e.action = "UPDATE"
            /\ e.prev.present
            /\ h \notin DOMAIN hosts
            /\ named # {})
           => /\ \E k \in named :
                    /\ k \in DOMAIN pending_devices'
                    /\ pending_devices'[k].name = lstrip(e.payload.name)
                    /\ pending_devices'[k].description = e.payload.description
                    /\ pending_devices'[k].status = NormStatus(e.payload.status)
              /\ \A i \in DOMAIN last'.calls : last'.calls[i].op \notin Mutations
              /\ hosts' = hosts
              /\ last'.instr = None]_vars

\* the host get_host_by_ip returns for an IP: the first, by hostid, of the
\* hosts of hs with that IP
ResolvedBy(hs, ip) ==
    {h \in DOMAIN hs :
        /\ hs[h].ip = ip
        /\ \A g \in DOMAIN hs : hs[g].ip = ip => hs[h].hostid <= hs[g].hostid}

\* C22 (as claimed): after a node UPDATE whose previous IP is the IP of a
\* host of the sink and whose update_host call succeeded, that host has the
\* new IP and the name, description and status it had before, every other
\* host is as it was, and the info cache holds the new IP for the device.
C22_NodeUpdateChangesOnlyIp ==
    LET e == last.event
        updates == CallsOf({"update_host"})
    IN  (/\ IsDelivery
         /\ e.shape = "envelope"
         /\ e.table = "nodes" /\ e.action = "UPDATE"
         /\ HasNetdev(e.payload.netdev)
         /\ e.prev.present
         /\ ResolvedBy(last.hostsBefore, ip_to_string(e.prev.ipaddr)) # {}
         /\ updates # <<>> /\ updates[1].ok)
        => \A h \in ResolvedBy(last.hostsBefore, ip_to_string(e.prev.ipaddr)) :
              /\ DOMAIN hosts = DOMAIN last.hostsBefore
              /\ hosts[h].ip = ip_to_string(e.payload.ipaddr)
              /\ hosts[h].name = last.hostsBefore[h].name
              /\ hosts[h].description = last.hostsBefore[h].description
              /\ hosts[h].status = last.hostsBefore[h].status
              /\ \A g \in DOMAIN hosts \ {h} : hosts[g] = last.hostsBefore[g]
              /\ \E k \in DOMAIN device_info_cache :
                    /\ k.v = e.payload.netdev.v
                    /\ device_info_cache[k].ip = ip_to_string(e.payload.ipaddr)

\* C23: a delivery for a table other than netdevices and nodes, and a
\* nodes delivery without a netdev, of any action, leave the three maps of
\* the buffer and the sink as they were, make no sink call, return no
\* instruction and are acknowledged.
C23_UnjoinableIsDropped ==
    (/\ IsDelivery
     /\ last.event.shape = "envelope"
     /\ \/ last.event.table \notin {"netdevices", "nodes"}
        \/ last.event.table = "nodes" /\ last.event.payload.netdev = NoneKey)
    => /\ ~last.bufChanged
       /\ last.calls = <<>>
       /\ hosts = last.hostsBefore
       /\ last.instr = None
       /\ last.acks = 1 /\ last.nacks = 0
       /\ requeued = None

C23_Witness ==
    /\ IsDelivery
    /\ last.event.shape = "envelope"
    /\ last.event.table = "nodes" /\ last.event.action = "DELETE"
    /\ last.event.payload.netdev = NoneKey
    /\ ResolvedBy(hosts, ip_to_string(last.event.payload.ipaddr)) # {}
    /\ DOMAIN pending_devices # {}
    /\ last.acks = 1

\* C24: the calls of create_host, update_host and delete_host of one
\* delivery, by the handler and by process_message together, are at most
\* one.
C24_AtMostOneMutation ==
    IsDelivery => Len(CallsOf(Mutations)) <= 1

C24_Witness ==
    /\ IsDelivery
    /\ last.event.table = "nodes" /\ last.event.action = "DELETE"
    /\ Len(CallsOf({"delete_host"})) = 1
    /\ ~CallsOf({"delete_host"})[1].ok
    /\ Len(last.calls) = 2

\* the delivery took a complete record from the buffer to create its host
TookRecord ==
    /\ IsDelivery
    /\ last.event.shape = "envelope"
    /\ last.event.action = "INSERT"
    /\ last.got # None

C26_NoCompletePendingLeft ==
    IsDelivery
    => /\ \A k \in DOMAIN pending_devices : ~IsComplete(pending_devices[k])
       /\ last.got # None
             => /\ IsComplete(last.got[1])
                /\ str(DeviceOf(last.event)) \notin DOMAIN pending_devices

C26_Witness ==
    /\ TookRecord
    /\ last.event.table = "netdevices"
    /\ IsComplete(last.got[1])
    /\ last.got[1].ip = ip_to_string(AddrA)
    /\ str(DeviceOf(last.event)) \notin DOMAIN pending_devices

\* C27 (as claimed): a delivery that takes a complete record from the
\* buffer through get_complete_device returns the create instruction for
\* that record, and create_host is called for it.
C27_HandOffEmitsCreate ==
    TookRecord
    => /\ last.instr = Some(CreateInstruction(last.got[1]))
       /\ Len(CallsOf({"create_host"})) = 1

====
